---- MODULE Spec2Model ----
(***************************************************************************)
(* TestTriage: the Jira -> ChromaDB synchronizer (src/jira_sync_to_chroma.py)*)
(* and the similarity search tool search_similar_jira_issues               *)
(* (src/tools/test_analysis_tools.py) as one state machine over the shared  *)
(* persistent collection "jira_issues".                                    *)
(*                                                                         *)
(* Numbers: similarities, thresholds and distances are fixed-point with     *)
(* One = 1.0, so 0.45 is 90 and the open boost 0.10 is 20. Distances are    *)
(* drawn even, which makes dist / 2 exact.                                  *)
(*                                                                         *)
(* Specifications: Spec (tracker edits, sync runs and searches together),   *)
(* SpecSearch (one caller over the collections a sync leaves), SpecLarge    *)
(* (collections larger than one query returns), SpecFetch and SpecFetchLive *)
(* (sync runs with fetch_jira_issues page by page), SpecNormalize and       *)
(* SpecFn (_normalize_description, the query text and the status reading,   *)
(* each applied to inputs of its own).                                      *)
(***************************************************************************)
EXTENDS Integers, Sequences, FiniteSets, TLC

VARIABLES
    settings_chroma_db_dir, \* does settings.chroma_db_dir resolve in this deployment
    tracker,                \* the remote issue tracker: key -> fields
    clock,                  \* the tracker's "updated" clock
    edits,                  \* tracker edits made so far
    index,                  \* the persistent collection: a sequence of entries
    syncPc,                 \* position of the sync run (main of jira_sync_to_chroma)
    syncIssues,             \* issues: the list fetch_jira_issues returned
    syncOffset,             \* i of the loop "for i in range(0, len(issues), batch_size)"
    syncBatchSize,          \* batch_size of the run
    syncIndex0,             \* history: the collection when the run started
    syncFault,              \* history: the batch (1-based) whose embed or upsert raised
    chroma_client,          \* module global _chroma_client
    embedding_model_name,   \* module global _embedding_model_name
    jira_collection,        \* module global _jira_collection
    pc,                     \* position of the search call
    args,                   \* top_k and similarity_threshold as the caller supplied them
    results,                \* what collection.query returned to the call
    fault,                  \* history: the exception raised inside the call, if any
    response,               \* what the call returned (or that it raised)
    qdist,                  \* history: the distance of the query to each stored embedding
    fetchStartAt,           \* fetch_jira_issues: start_at, the offset of the next page
    fetchMaxResults,        \* fetch_jira_issues: max_results, the page size of the run
    fetchAllIssues,         \* fetch_jira_issues: all_issues, the issues collected so far
    fetchPages,             \* history: the length of each page the tracker returned
    fetchFault,             \* history: the page request (1-based) that raised
    fnIn,                   \* the input of a pure function under test
    fnOut,                  \* what the function returned for it
    syncCalls,              \* history: the embed_content and upsert calls of the run
    other,                  \* a second sync process: its position, issues and offset
    callers,                \* threads inside _get_chroma_resources: position and locals
    built,                  \* history: the clients and collection handles constructed
    slackFile,              \* conversation_<thread_ts>.pkl: absent or the pickled history
    slackWorkers            \* pool threads in _process_mention: position and locals

vars == <<settings_chroma_db_dir, tracker, clock, edits, index, syncPc, syncIssues,
          syncOffset, syncBatchSize, syncIndex0, chroma_client, embedding_model_name,
          jira_collection, pc, args, results, fault, response, syncFault, qdist,
          fetchStartAt, fetchMaxResults, fetchAllIssues, fetchPages, fetchFault,
          fnIn, fnOut, syncCalls, other, callers, built, slackFile, slackWorkers>>

syncVars == <<syncPc, syncIssues, syncOffset, syncBatchSize, syncIndex0, syncFault, syncCalls>>
trackerVars == <<tracker, clock, edits>>
globalVars == <<chroma_client, embedding_model_name, jira_collection>>
searchVars == <<pc, args, results, fault, response, qdist>>
fetchVars == <<fetchStartAt, fetchMaxResults, fetchAllIssues, fetchPages, fetchFault>>
fnVars == <<fnIn, fnOut>>
threadVars == <<callers, built>>
slackVars == <<slackFile, slackWorkers>>
sideVars == <<other, threadVars, slackVars>>
\* What no step of the tracker, of the batch loop or of a search call touches.
envVars == <<settings_chroma_db_dir, fetchVars, fnVars, sideVars>>

---------------------------------------------------------------------------
(* Bounds and value sets *)

MaxEdits == 1

Keys == {"K1", "K2", "K3"}
Statuses == {"New", "Closed"}
BatchSizes == {1, 2}
PageSizes == {1, 2, 1000}

None == "None"
NoResponse == [kind |-> "none"]
NoResults == [ids |-> <<>>, distances |-> <<>>, metadatas |-> <<>>, documents |-> <<>>]
NoArgs == [top_k |-> 0, similarity_threshold |-> 0]
NoDist == [v \in {} |-> 0]
NoInput == [op |-> "none"]

One == 200
OPEN_ISSUE_BOOST == 20
N_RESULTS == 10
MAX_TOP_K == 2
EMBEDDING_MODEL == "models/text-embedding-004"

Min(a, b) == IF a < b THEN a ELSE b
Max(a, b) == IF a > b THEN a ELSE b

---------------------------------------------------------------------------
(* The issue tracker and fetch_jira_issues *)

\* ORDER BY updated DESC: the keys, most recently updated first.
OrderedKeys(trk) ==
    [r \in 1..Cardinality(DOMAIN trk) |->
        CHOOSE k \in DOMAIN trk :
            Cardinality({j \in DOMAIN trk : trk[j].updated > trk[k].updated}) = r - 1]

\* _extract_issue_data: the dictionary built from one tracker issue.
ExtractIssueData(trk, k) ==
    [key |-> k, summary |-> trk[k].summary, status |-> trk[k].status,
     updated |-> trk[k].updated]

\* jira_client.search_issues(jql, startAt, maxResults): one page.
SearchIssues(trk, start_at, max_results) ==
    LET all == OrderedKeys(trk)
        last == Min(start_at + max_results, Len(all))
    IN  [i \in 1..Max(last - start_at, 0) |-> all[start_at + i]]

PageIsLastOrFull(n, page_size) == n <= page_size

\* if len(issues) < max_results: break
PageIsLast(n, page_size) == n < page_size

RECURSIVE FetchFrom(_, _, _, _)
\* The "while True" loop of fetch_jira_issues against a tracker that does not change.
FetchFrom(trk, start_at, max_results, all_issues) ==
    LET issues == SearchIssues(trk, start_at, max_results)
        got == all_issues \o [i \in 1..Len(issues) |-> ExtractIssueData(trk, issues[i])]
    IN  IF Len(issues) = 0 THEN all_issues
        ELSE IF PageIsLast(Len(issues), max_results) THEN got
        ELSE FetchFrom(trk, start_at + max_results, max_results, got)

FetchJiraIssues(trk, max_results) == FetchFrom(trk, 0, max_results, <<>>)

---------------------------------------------------------------------------
(* _normalize_description *)

\* A description is a sequence of characters. "SP", "LF", "CR", "NBSP" and "BQ"
\* stand for space, \n, \r, \xa0 and the backquote; a Jira macro such as "{code}" is written as
\* one element, so no macro is assembled from pieces.
WhiteSpace == {"SP", "LF", "CR", "NBSP"}
HeadingLevels == {"1"}
CodeFence == <<"LF", "BQ", "BQ", "BQ", "LF">>

RECURSIVE ReplaceCrLfFrom(_, _)
\* description.replace('\r\n', '\n')
ReplaceCrLfFrom(t, i) ==
    IF i > Len(t) THEN <<>>
    ELSE IF i < Len(t) /\ t[i] = "CR" /\ t[i + 1] = "LF"
         THEN <<"LF">> \o ReplaceCrLfFrom(t, i + 2)
         ELSE <<t[i]>> \o ReplaceCrLfFrom(t, i + 1)

RECURSIVE ReplaceFrom(_, _, _, _)
\* Every occurrence of the element old becomes the characters new.
ReplaceFrom(t, i, old, new) ==
    IF i > Len(t) THEN <<>>
    ELSE (IF t[i] = old THEN new ELSE <<t[i]>>) \o ReplaceFrom(t, i + 1, old, new)

Replace(t, old, new) == ReplaceFrom(t, 1, old, new)

RECURSIVE SkipWhile(_, _, _)
\* The first position from i on whose character is not in S (Len(t) + 1 if none).
SkipWhile(t, i, S) ==
    IF i <= Len(t) /\ t[i] \in S THEN SkipWhile(t, i + 1, S) ELSE i

\* h[1-6]\. matches at position i.
HeadingAt(t, i) ==
    /\ i + 2 <= Len(t)
    /\ t[i] = "h"
    /\ t[i + 1] \in HeadingLevels
    /\ t[i + 2] = "."

RECURSIVE RemoveHeadingsFrom(_, _)
\* re.sub(r'h[1-6]\.\s*', '', text): matches are found left to right in the text
\* as it was, each with the white space that follows it.
RemoveHeadingsFrom(t, i) ==
    IF i > Len(t) THEN <<>>
    ELSE IF HeadingAt(t, i) THEN RemoveHeadingsFrom(t, SkipWhile(t, i + 3, WhiteSpace))
         ELSE <<t[i]>> \o RemoveHeadingsFrom(t, i + 1)

RECURSIVE CollapseRunsFrom(_, _, _, _, _)
\* Every maximal run of at least least characters c becomes keep of them.
CollapseRunsFrom(t, i, c, least, keep) ==
    IF i > Len(t) THEN <<>>
    ELSE IF t[i] # c THEN <<t[i]>> \o CollapseRunsFrom(t, i + 1, c, least, keep)
         ELSE LET j == SkipWhile(t, i, {c})
                  n == IF j - i >= least THEN keep ELSE j - i
              IN  [k \in 1..n |-> c] \o CollapseRunsFrom(t, j, c, least, keep)

RECURSIVE LastNonSpace(_, _)
LastNonSpace(t, j) ==
    IF j >= 1 /\ t[j] \in WhiteSpace THEN LastNonSpace(t, j - 1) ELSE j

\* text.strip()
Strip(t) == SubSeq(t, SkipWhile(t, 1, WhiteSpace), LastNonSpace(t, Len(t)))

\* _normalize_description, statement by statement.
NormalizeDescription(description) ==
    IF Len(description) = 0 THEN <<>>
    ELSE LET t1 == ReplaceCrLfFrom(description, 1)
             t2 == Replace(t1, "NBSP", <<"SP">>)
             t3 == RemoveHeadingsFrom(t2, 1)
             t4 == Replace(t3, "{code:java}", CodeFence)
             t5 == Replace(t4, "{code}", CodeFence)
             t6 == Replace(t5, "{quote}", <<"LF", ">", "SP">>)
             t7 == Replace(t6, "{noformat}", <<"LF">>)
             t8 == CollapseRunsFrom(t7, 1, "SP", 1, 1)
             t9 == CollapseRunsFrom(t8, 1, "LF", 3, 2)
         IN  Strip(t9)

---------------------------------------------------------------------------
(* sync_to_chromadb *)

\* _create_searchable_text: the fields that are embedded (the key is not one).
CreateSearchableText(issue) == [summary |-> issue.summary, status |-> issue.status]

\* The metadata dictionary of one issue.
Metadata(issue) ==
    [key |-> issue.key, summary |-> issue.summary, status |-> issue.status,
     updated |-> issue.updated]

\* genai.embed_content: an opaque deterministic function of model and text.
EmbedContent(model, content) == [model |-> model, text |-> content]

\* The entry the run prepares for one issue: id, embedding, document, metadata.
EntryOf(issue) ==
    [id |-> issue.key,
     embedding |-> EmbedContent(EMBEDDING_MODEL, CreateSearchableText(issue)),
     document |-> CreateSearchableText(issue),
     metadata |-> Metadata(issue)]

BatchOneMore(issues, i, batch_size) ==
    [j \in 1..(Min(i + batch_size + 1, Len(issues)) - i) |-> EntryOf(issues[i + j])]

\* batch = issues[i:i + batch_size]
Batch(issues, i, batch_size) ==
    [j \in 1..(Min(i + batch_size, Len(issues)) - i) |-> EntryOf(issues[i + j])]

HasId(idx, id) == \E j \in DOMAIN idx : idx[j].id = id

UpsertAppend(idx, e) == Append(idx, e)

\* collection.upsert of one id: "updates if exists, inserts if new".
UpsertOne(idx, e) ==
    IF HasId(idx, e.id)
    THEN [j \in DOMAIN idx |-> IF idx[j].id = e.id THEN e ELSE idx[j]]
    ELSE Append(idx, e)

RECURSIVE UpsertFrom(_, _, _)
UpsertFrom(idx, batch, j) ==
    IF j > Len(batch) THEN idx ELSE UpsertFrom(UpsertOne(idx, batch[j]), batch, j + 1)

UpsertReplacingCollection(idx, batch) == batch

\* collection.upsert(ids, embeddings, documents, metadatas) of one batch.
Upsert(idx, batch) == UpsertFrom(idx, batch, 1)

\* The collection rejects a call whose ids repeat.
HasDuplicateIds(batch) ==
    \E a, b \in DOMAIN batch : a < b /\ batch[a].id = batch[b].id

---------------------------------------------------------------------------
(* search_similar_jira_issues: the computation on what the query returned *)

\* A text argument is the sequence of its lines: the empty string is one empty
\* line, and None, which no string equals, is no line at all.
NoText == <<>>
EmptyText == <<"">>

\* "if error_message:" and "if test_name:": neither None nor the empty string.
Truthy(text) == text \notin {NoText, EmptyText}

\* f"{label}: {text}": the label opens the first line of the text.
Component(label, text) ==
    [i \in 1..Len(text) |-> [label |-> IF i = 1 THEN label ELSE None, text |-> text[i]]]

SearchComponentsInArgumentOrder(failure_description, test_name, error_message) ==
    <<Component("Failure Description", failure_description)>>
    \o (IF Truthy(test_name) THEN <<Component("Test Name", test_name)>> ELSE <<>>)
    \o (IF Truthy(error_message) THEN <<Component("Error Message", error_message)>> ELSE <<>>)

\* search_components after its three appends.
SearchComponents(failure_description, test_name, error_message) ==
    (IF Truthy(error_message) THEN <<Component("Error Message", error_message)>> ELSE <<>>)
    \o <<Component("Failure Description", failure_description)>>
    \o (IF Truthy(test_name) THEN <<Component("Test Name", test_name)>> ELSE <<>>)

RECURSIVE Join(_, _)
\* "\n".join(search_components): the lines of the components, one after another.
Join(components, i) ==
    IF i > Len(components) THEN <<>> ELSE components[i] \o Join(components, i + 1)

\* search_query
SearchQuery(failure_description, test_name, error_message) ==
    Join(SearchComponents(failure_description, test_name, error_message), 1)

\* dict.get(key, default)
Get(d, key, default) == IF key \in DOMAIN d THEN d[key] ELSE default

\* top_k = min(max(1, top_k), 2)
ClampTopK(top_k) == Min(Max(1, top_k), MAX_TOP_K)

ClampThresholdUpperOnly(similarity_threshold) == Min(One, similarity_threshold)

\* similarity_threshold = max(0.0, min(1.0, similarity_threshold))
ClampThreshold(similarity_threshold) == Max(0, Min(One, similarity_threshold))

\* similarities = [1 - (dist / 2) for dist in distances]
Similarity(dist) == One - (dist \div 2)

Similarities(distances) == [i \in DOMAIN distances |-> Similarity(distances[i])]

\* str.lower on the status names the tracker uses.
Lower(s) ==
    CASE s = "Closed" -> "closed"
      [] s = "CLOSED" -> "closed"
      [] s = "Resolved" -> "resolved"
      [] s = "cLoSeD" -> "closed"
      [] s = "RESOLVED" -> "resolved"
      [] s = "Done" -> "done"
      [] s = "DONE" -> "done"
      [] s = "Open" -> "open"
      [] s = "To Do" -> "to do"
      [] s = "Closed " -> "closed "
      [] s = "Release Pending" -> "release pending"
      [] s = "New" -> "new"
      [] s = "In Progress" -> "in progress"
      [] OTHER -> s

IsOpenAsWritten(status) == status \notin {"closed", "resolved", "done"}

\* is_open = status not in ['closed', 'resolved', 'done'], status lower-cased
IsOpen(status) == Lower(status) \notin {"closed", "resolved", "done"}

PassesThresholdBoosted(similarity, similarity_threshold) ==
    similarity + OPEN_ISSUE_BOOST >= similarity_threshold

PassesThresholdStrict(similarity, similarity_threshold) == similarity > similarity_threshold

\* if similarity >= similarity_threshold
PassesThreshold(similarity, similarity_threshold) == similarity >= similarity_threshold

\* One element of filtered_results.
Candidate(res, sims, i) ==
    [key |-> res.ids[i], similarity |-> sims[i], metadata |-> res.metadatas[i],
     document |-> res.documents[i], is_open |-> IsOpen(Get(res.metadatas[i], "status", ""))]

RECURSIVE FilterFrom(_, _, _, _)
\* The loop "for i, similarity in enumerate(similarities)".
FilterFrom(res, sims, thr, i) ==
    IF i > Len(sims) THEN <<>>
    ELSE (IF PassesThreshold(sims[i], thr) THEN <<Candidate(res, sims, i)>> ELSE <<>>)
         \o FilterFrom(res, sims, thr, i + 1)

SortKeyNoBoost(x) == -x.similarity

\* key=lambda x: -(x['similarity'] + (OPEN_ISSUE_BOOST if x['is_open'] else 0))
SortKey(x) == -(x.similarity + (IF x.is_open THEN OPEN_ISSUE_BOOST ELSE 0))

InsertSortedTiesFirst(sorted, x) ==
    LET k == Cardinality({j \in DOMAIN sorted : SortKey(sorted[j]) < SortKey(x)})
    IN  SubSeq(sorted, 1, k) \o <<x>> \o SubSeq(sorted, k + 1, Len(sorted))

\* x goes behind every element whose key is not larger: list.sort is stable.
InsertSorted(sorted, x) ==
    LET k == Cardinality({j \in DOMAIN sorted : SortKey(sorted[j]) <= SortKey(x)})
    IN  SubSeq(sorted, 1, k) \o <<x>> \o SubSeq(sorted, k + 1, Len(sorted))

RECURSIVE SortFrom(_, _, _)
SortFrom(sorted, s, i) ==
    IF i > Len(s) THEN sorted ELSE SortFrom(InsertSorted(sorted, s[i]), s, i + 1)

\* filtered_results.sort(key=...)
SortResults(s) == SortFrom(<<>>, s, 1)

TruncateNone(s, top_k) == s

\* filtered_results[:top_k]
Truncate(s, top_k) == SubSeq(s, 1, Min(top_k, Len(s)))

BestIdxSmallest(sims) ==
    CHOOSE i \in DOMAIN sims :
        /\ \A j \in DOMAIN sims : sims[j] >= sims[i]
        /\ \A j \in DOMAIN sims : j < i => sims[j] > sims[i]

\* similarities.index(max(similarities)): the first position of the largest.
BestIdx(sims) ==
    CHOOSE i \in DOMAIN sims :
        /\ \A j \in DOMAIN sims : sims[j] <= sims[i]
        /\ \A j \in DOMAIN sims : j < i => sims[j] < sims[i]

\* "{x * 100:.1f}": tenths of a percent (exact in this fixed point).
PctTenths(x) == (x * 1000) \div One

BandStrict(similarity) ==
    IF PctTenths(similarity) > 900 THEN "very_high"
    ELSE IF PctTenths(similarity) > 800 THEN "high"
    ELSE "moderate"

\* The recommendation branch taken for best_similarity = similarity * 100.
Band(similarity) ==
    IF PctTenths(similarity) >= 900 THEN "very_high"
    ELSE IF PctTenths(similarity) >= 800 THEN "high"
    ELSE "moderate"

\* One issue block of the output.
IssueInfo(x) ==
    [key |-> Get(x.metadata, "key", "N/A"),
     indicator |-> IF x.is_open THEN "OPEN" ELSE "CLOSED",
     similarity |-> x.similarity, match |-> PctTenths(x.similarity),
     summary |-> Get(x.metadata, "summary", "N/A"),
     status |-> Get(x.metadata, "status", "N/A")]

\* The "Found N similar issue(s)" text with its recommendation.
SuccessResponse(listed, thr) ==
    [kind |-> "success", found |-> Len(listed), threshold |-> thr,
     issues |-> [i \in DOMAIN listed |-> IssueInfo(listed[i])],
     band |-> Band(listed[1].similarity), band_key |-> listed[1].key]

BelowThresholdSilent(res, sims, thr) == [kind |-> "no_results"]

\* "No similar issues found with similarity >= ...%. Closest match: ..."
BelowThresholdResponse(res, sims, thr) ==
    [kind |-> "below_threshold", threshold |-> thr,
     best_key |-> Get(res.metadatas[BestIdx(sims)], "key", "N/A"),
     best_similarity |-> PctTenths(sims[BestIdx(sims)]),
     best_summary |-> Get(res.metadatas[BestIdx(sims)], "summary", "N/A")]

\* "No Jira issues found in the database. Please run jira_sync_to_chroma.py ..."
EmptyCorpusResponse == [kind |-> "empty_corpus"]

\* "No similar issues found in the database."
NoSimilarResponse == [kind |-> "no_results"]

OnExceptionPropagate(e) == [kind |-> "raised", text |-> e]

\* except Exception as e: return f"Error searching for similar Jira issues: {str(e)}"
OnException(e) == [kind |-> "error", text |-> e]

\* Everything after collection.query returned: filter, sort, truncate, format.
Respond(res, top_k, thr) ==
    IF Len(res.ids) = 0 THEN NoSimilarResponse
    ELSE LET sims == Similarities(res.distances)
             filtered_results == FilterFrom(res, sims, thr, 1)
         IN  IF Len(filtered_results) = 0
             THEN BelowThresholdResponse(res, sims, thr)
             ELSE SuccessResponse(Truncate(SortResults(filtered_results), top_k), thr)

---------------------------------------------------------------------------
(* collection.query *)

CreateCollectionAnew(idx) == <<>>

\* client.get_or_create_collection(name="jira_issues"): the collection that is
\* persisted under that name, with the entries it holds, or a new empty one.
GetOrCreateCollection(idx) == idx

Embeddings(idx) == {idx[j].embedding : j \in DOMAIN idx}

\* The orders in which the collection may return its entries: nearest first,
\* entries at equal distance in any order.
NearestOrders(idx, dist) ==
    {p \in [DOMAIN idx -> DOMAIN idx] :
        /\ \A a, b \in DOMAIN idx : a # b => p[a] # p[b]
        /\ \A a, b \in DOMAIN idx :
               a < b => dist[idx[p[a]].embedding] <= dist[idx[p[b]].embedding]}

\* Two of those orders, for collections too large to list them all: entries at
\* equal distance in the order they were stored, or in the reverse of it.
TieOrders(idx, dist) ==
    LET Before(a, b, up) ==
            \/ dist[idx[a].embedding] < dist[idx[b].embedding]
            \/ /\ dist[idx[a].embedding] = dist[idx[b].embedding]
               /\ IF up THEN a < b ELSE a > b
        Order(up) ==
            [r \in DOMAIN idx |->
                CHOOSE a \in DOMAIN idx :
                    Cardinality({b \in DOMAIN idx : Before(b, a, up)}) = r - 1]
    IN  {Order(TRUE), Order(FALSE)}

\* collection.query(query_embeddings=[q], n_results=10): dist[v] is the distance
\* of the query embedding to the stored embedding v.
Query(idx, dist, p) ==
    LET n == Min(N_RESULTS, Len(idx))
    IN  [ids |-> [i \in 1..n |-> idx[p[i]].id],
         distances |-> [i \in 1..n |-> dist[idx[p[i]].embedding]],
         metadatas |-> [i \in 1..n |-> idx[p[i]].metadata],
         documents |-> [i \in 1..n |-> idx[p[i]].document]]

---------------------------------------------------------------------------
(* Initial states *)

InitialTracker ==
    [k \in Keys |->
        CASE k = "K1" -> [summary |-> "s1", status |-> "New", updated |-> 1]
          [] k = "K2" -> [summary |-> "s2", status |-> "Closed", updated |-> 2]
          [] OTHER    -> [summary |-> "s3", status |-> "New", updated |-> 3]]

IdleSync ==
    /\ syncPc = "idle"
    /\ syncIssues = <<>>
    /\ syncOffset = 0
    /\ syncBatchSize = 0
    /\ syncIndex0 = <<>>
    /\ syncFault = 0
    /\ syncCalls = <<>>

IdleSearch ==
    /\ pc = "idle"
    /\ args = NoArgs
    /\ results = NoResults
    /\ fault = None
    /\ response = NoResponse
    /\ qdist = NoDist

\* No fetch_jira_issues loop is under way.
IdleFetch ==
    /\ fetchStartAt = 0
    /\ fetchMaxResults = 0
    /\ fetchAllIssues = <<>>
    /\ fetchPages = <<>>
    /\ fetchFault = 0

\* No pure function is under test.
IdleFn ==
    /\ fnIn = NoInput
    /\ fnOut = <<>>

Threads == {1, 2}
NoRun == [pc |-> "idle", issues |-> <<>>, offset |-> 0, batch_size |-> 0]
NoCaller == [pc |-> "idle", client |-> None, collection |-> None]
\* os.path.exists(pickle_file) is False: read as the empty history.
NoFile == <<>>
NoWorker == [pc |-> "idle", has_link |-> FALSE, history |-> <<>>, outcome |-> "none"]

\* No second sync process, no thread in _get_chroma_resources, no mention queued.
IdleSide ==
    /\ other = NoRun
    /\ callers = [t \in Threads |-> NoCaller]
    /\ built = [clients |-> {}, collections |-> {}]
    /\ slackFile = NoFile
    /\ slackWorkers = [t \in Threads |-> NoWorker]

\* A fresh deployment: nothing synced yet, the module globals still None.
\* settings_chroma_db_dir is FALSE for Settings as src/config/settings.py defines it
\* (no chroma_db_dir attribute: every read of it raises AttributeError) and TRUE
\* where the attribute is supplied, which both modules need before they touch
\* the collection.
Init ==
    /\ settings_chroma_db_dir \in BOOLEAN
    /\ tracker = InitialTracker
    /\ clock = 3
    /\ edits = 0
    /\ index = <<>>
    /\ IdleSync
    /\ chroma_client = None
    /\ embedding_model_name = None
    /\ jira_collection = None
    /\ IdleSearch
    /\ IdleSide
    /\ IdleFetch
    /\ IdleFn

---------------------------------------------------------------------------
(* The tracker changes under its users *)

\* The text a user replaces a summary with: one the issue did not have before.
Revise(s) == IF s = "s4" THEN "s5" ELSE "s4"

EditIssue(k, st) ==
    /\ edits < MaxEdits
    /\ k \in DOMAIN tracker
    /\ tracker' = [tracker EXCEPT ![k] = [summary |-> Revise(tracker[k].summary),
                                          status |-> st, updated |-> clock + 1]]
    /\ clock' = clock + 1
    /\ edits' = edits + 1
    /\ UNCHANGED <<envVars, index, syncVars, globalVars, searchVars>>

---------------------------------------------------------------------------
(* One run of jira_sync_to_chroma.main *)

\* The module evaluates settings.chroma_db_dir when it is loaded (the default of
\* JiraChromaSync.__init__ and of --chroma-dir): without it the run ends there.
\* JiraChromaSync() or fetch_jira_issues may raise as well; main re-raises.
SyncFailsBeforeWriting ==
    /\ syncPc = "idle"
    /\ syncPc' = "failed"
    /\ UNCHANGED <<syncIssues, syncOffset, syncBatchSize, syncIndex0, syncFault, syncCalls>>
    /\ UNCHANGED <<envVars, index, trackerVars, globalVars, searchVars>>

\* fetch_jira_issues returned; sync_to_chromadb(issues) starts.
SyncStart(max_results, batch_size) ==
    /\ syncPc = "idle"
    /\ settings_chroma_db_dir
    /\ syncIssues' = FetchJiraIssues(tracker, max_results)
    /\ syncOffset' = 0
    /\ syncBatchSize' = batch_size
    /\ syncIndex0' = index
    /\ syncFault' = 0
    /\ syncCalls' = <<>>
    /\ syncPc' = IF Len(syncIssues') = 0 THEN "done" ELSE "batch"
    /\ UNCHANGED <<envVars, index, trackerVars, globalVars, searchVars>>

OnBatchErrorContinue(offset, batch_size, n) ==
    [pc |-> IF offset + batch_size >= n THEN "done" ELSE "batch",
     offset |-> offset + batch_size]

\* Nothing in the loop catches: the exception leaves sync_to_chromadb and main.
OnBatchError(offset, batch_size, n) == [pc |-> "failed", offset |-> offset]

\* The two requests of one iteration, as the collaborators see them.
EmbedCall(batch) ==
    [op |-> "embed_content", documents |-> [j \in DOMAIN batch |-> batch[j].document]]
UpsertCall(batch) ==
    [op |-> "upsert", ids |-> [j \in DOMAIN batch |-> batch[j].id]]

\* One iteration of the batch loop whose embed_content and upsert succeed.
SyncBatchOk ==
    /\ syncPc = "batch"
    /\ ~HasDuplicateIds(Batch(syncIssues, syncOffset, syncBatchSize))
    /\ index' = Upsert(index, Batch(syncIssues, syncOffset, syncBatchSize))
    /\ syncCalls' = syncCalls \o <<EmbedCall(Batch(syncIssues, syncOffset, syncBatchSize)),
                                   UpsertCall(Batch(syncIssues, syncOffset, syncBatchSize))>>
    /\ syncOffset' = syncOffset + syncBatchSize
    /\ syncPc' = IF syncOffset' >= Len(syncIssues) THEN "done" ELSE "batch"
    /\ UNCHANGED <<syncIssues, syncBatchSize, syncIndex0, syncFault>>
    /\ UNCHANGED <<envVars, trackerVars, globalVars, searchVars>>

\* One iteration whose embed_content or upsert raises: the collection is not written.
SyncBatchFails ==
    /\ syncPc = "batch"
    /\ LET next == OnBatchError(syncOffset, syncBatchSize, Len(syncIssues))
       IN  /\ syncPc' = next.pc
           /\ syncOffset' = next.offset
    /\ syncFault' = IF syncFault = 0 THEN (syncOffset \div syncBatchSize) + 1 ELSE syncFault
    /\ \E raised \in {"embed_content", "upsert"} :
          syncCalls' = syncCalls
              \o <<EmbedCall(Batch(syncIssues, syncOffset, syncBatchSize))>>
              \o (IF raised = "upsert"
                  THEN <<UpsertCall(Batch(syncIssues, syncOffset, syncBatchSize))>> ELSE <<>>)
    /\ UNCHANGED <<syncIssues, syncBatchSize, syncIndex0>>
    /\ UNCHANGED <<envVars, index, trackerVars, globalVars, searchVars>>

\* The process ends (stats printed, or the exception re-raised by main).
SyncExit ==
    /\ syncPc \in {"done", "failed"}
    /\ syncPc' = "idle"
    /\ syncIssues' = <<>>
    /\ syncOffset' = 0
    /\ syncBatchSize' = 0
    /\ syncIndex0' = <<>>
    /\ syncFault' = 0
    /\ syncCalls' = <<>>
    /\ fetchStartAt' = 0
    /\ fetchMaxResults' = 0
    /\ fetchAllIssues' = <<>>
    /\ fetchPages' = <<>>
    /\ fetchFault' = 0
    /\ UNCHANGED <<settings_chroma_db_dir, fnVars, sideVars, index, trackerVars, globalVars, searchVars>>

---------------------------------------------------------------------------
(* A run of jira_sync_to_chroma.main, fetch_jira_issues page by page *)

\* JiraChromaSync() returned and fetch_jira_issues enters its loop.
FetchStart(page_size, batch_size) ==
    /\ syncPc = "idle"
    /\ settings_chroma_db_dir
    /\ syncPc' = "fetch"
    /\ fetchStartAt' = 0
    /\ fetchMaxResults' = page_size
    /\ fetchAllIssues' = <<>>
    /\ fetchPages' = <<>>
    /\ fetchFault' = 0
    /\ syncIssues' = <<>>
    /\ syncOffset' = 0
    /\ syncBatchSize' = batch_size
    /\ syncIndex0' = index
    /\ syncFault' = 0
    /\ syncCalls' = <<>>
    /\ UNCHANGED <<settings_chroma_db_dir, fnVars, sideVars, index, trackerVars, globalVars, searchVars>>

\* One iteration of "while True": search_issues answers with a page, its issues
\* are collected, and the loop goes on or fetch_jira_issues returns all_issues
\* to main, which hands them to sync_to_chromadb.
FetchPage ==
    /\ syncPc = "fetch"
    /\ LET issues == SearchIssues(tracker, fetchStartAt, fetchMaxResults)
           got == fetchAllIssues
                  \o [i \in 1..Len(issues) |-> ExtractIssueData(tracker, issues[i])]
           last == Len(issues) = 0 \/ PageIsLast(Len(issues), fetchMaxResults)
       IN  /\ fetchPages' = Append(fetchPages, Len(issues))
           /\ fetchAllIssues' = got
           /\ fetchStartAt' = IF last THEN fetchStartAt ELSE fetchStartAt + fetchMaxResults
           /\ syncIssues' = IF last THEN got ELSE <<>>
           /\ syncPc' = IF ~last THEN "fetch" ELSE IF Len(got) = 0 THEN "done" ELSE "batch"
    /\ UNCHANGED <<fetchMaxResults, fetchFault, syncOffset, syncBatchSize, syncIndex0, syncFault,
                   syncCalls>>
    /\ UNCHANGED <<settings_chroma_db_dir, fnVars, sideVars, index, trackerVars, globalVars, searchVars>>

OnFetchErrorReturnCollected(collected) ==
    [pc |-> IF Len(collected) = 0 THEN "done" ELSE "batch", issues |-> collected]

\* except Exception: print and raise; main prints and raises again.
OnFetchError(collected) == [pc |-> "failed", issues |-> <<>>]

\* One iteration in which search_issues (or _extract_issue_data) raises.
FetchPageFails ==
    /\ syncPc = "fetch"
    /\ fetchFault' = Len(fetchPages) + 1
    /\ syncPc' = OnFetchError(fetchAllIssues).pc
    /\ syncIssues' = OnFetchError(fetchAllIssues).issues
    /\ UNCHANGED <<fetchStartAt, fetchMaxResults, fetchAllIssues, fetchPages>>
    /\ UNCHANGED <<syncOffset, syncBatchSize, syncIndex0, syncFault, syncCalls>>
    /\ UNCHANGED <<settings_chroma_db_dir, fnVars, sideVars, index, trackerVars, globalVars, searchVars>>

---------------------------------------------------------------------------
(* One call of search_similar_jira_issues *)

\* The call ends with the exception e raised inside its try block.
Raise(e) ==
    /\ fault' = e
    /\ response' = OnException(e)
    /\ pc' = "done"

\* _get_chroma_resources raises: settings.chroma_db_dir does not resolve, or
\* PersistentClient fails. No global is assigned.
CallClientFails(top_k, similarity_threshold) ==
    /\ pc = "idle"
    /\ chroma_client = None
    /\ args' = [top_k |-> top_k, similarity_threshold |-> similarity_threshold]
    /\ Raise(IF settings_chroma_db_dir THEN "PersistentClient failed"
             ELSE "'Settings' object has no attribute 'chroma_db_dir'")
    /\ UNCHANGED <<envVars, index, trackerVars, syncVars, globalVars, results, qdist>>

\* _get_chroma_resources raises in get_or_create_collection: the client and the
\* model name are assigned already, the collection is not.
CallCollectionFails(top_k, similarity_threshold) ==
    /\ pc = "idle"
    /\ jira_collection = None
    /\ chroma_client # None \/ settings_chroma_db_dir
    /\ args' = [top_k |-> top_k, similarity_threshold |-> similarity_threshold]
    /\ chroma_client' = "PersistentClient"
    /\ embedding_model_name' = EMBEDDING_MODEL
    /\ UNCHANGED jira_collection
    /\ Raise("get_or_create_collection failed")
    /\ UNCHANGED <<envVars, index, trackerVars, syncVars, results, qdist>>

\* _get_chroma_resources returns the three handles, creating those still None.
CallGetsResources(top_k, similarity_threshold) ==
    /\ pc = "idle"
    /\ chroma_client # None \/ settings_chroma_db_dir
    /\ args' = [top_k |-> top_k, similarity_threshold |-> similarity_threshold]
    /\ chroma_client' = "PersistentClient"
    /\ embedding_model_name' = EMBEDDING_MODEL
    /\ jira_collection' = "jira_issues"
    /\ index' = GetOrCreateCollection(index)
    /\ pc' = "count"
    /\ UNCHANGED <<envVars, trackerVars, syncVars, results, qdist, fault, response>>

\* collection.count() raises.
CountFails ==
    /\ pc = "count"
    /\ Raise("count failed")
    /\ UNCHANGED <<envVars, index, trackerVars, syncVars, globalVars, args, results, qdist>>

\* if collection.count() == 0: return the "run the sync" text.
CountEmpty ==
    /\ pc = "count"
    /\ Len(index) = 0
    /\ response' = EmptyCorpusResponse
    /\ pc' = "done"
    /\ UNCHANGED <<envVars, index, trackerVars, syncVars, globalVars, args, results, qdist, fault>>

\* The collection holds data: clamp the arguments and build the query text.
CountNonEmpty ==
    /\ pc = "count"
    /\ Len(index) > 0
    /\ pc' = "query"
    /\ UNCHANGED <<envVars, index, trackerVars, syncVars, globalVars, args, results, qdist, fault, response>>

\* genai.embed_content or collection.query raises.
QueryFails(e) ==
    /\ pc = "query"
    /\ Raise(e)
    /\ UNCHANGED <<envVars, index, trackerVars, syncVars, globalVars, args, results, qdist>>

\* The query is embedded, the collection returns its nearest entries, and the call
\* filters, sorts, truncates and formats them.
QueryReturnsIn(D, every_order) ==
    /\ pc = "query"
    /\ \E dist \in [Embeddings(index) -> D] :
         \E p \in IF every_order THEN NearestOrders(index, dist) ELSE TieOrders(index, dist) :
            /\ qdist' = dist
            /\ results' = Query(index, dist, p)
            /\ response' = Respond(results', ClampTopK(args.top_k),
                                   ClampThreshold(args.similarity_threshold))
    /\ pc' = "done"
    /\ UNCHANGED <<envVars, index, trackerVars, syncVars, globalVars, args, fault>>

\* The same with every order the collection may return its entries in.
QueryReturns(D) == QueryReturnsIn(D, TRUE)

\* The caller has the text; the next call may start.
SearchReturn ==
    /\ pc = "done"
    /\ pc' = "idle"
    /\ args' = NoArgs
    /\ results' = NoResults
    /\ fault' = None
    /\ response' = NoResponse
    /\ qdist' = NoDist
    /\ UNCHANGED <<envVars, index, trackerVars, syncVars, globalVars>>

---------------------------------------------------------------------------
(* Specifications *)

\* Inputs of the whole-system specification.
TopKs == {2}
Thresholds == {90}
Distances == {80, 280}

\* Inputs of the search specification: top_k below 1 and above 2; thresholds
\* -0.5, 0.45, 0.80 and 1.5; similarities 1.00, 0.90, 0.82, 0.80, 0.75, 0.70,
\* 0.30 and -0.25.
SearchTopKs == {0, 1, 2, 3}
SearchThresholds == {-100, 90, 160, 300}
SearchDistances == {0, 40, 72, 80, 100, 120, 280, 500}

Search(TK, TH, D) ==
    \/ \E tk \in TK, th \in TH : CallClientFails(tk, th)
    \/ \E tk \in TK, th \in TH : CallCollectionFails(tk, th)
    \/ \E tk \in TK, th \in TH : CallGetsResources(tk, th)
    \/ CountFails
    \/ CountEmpty
    \/ CountNonEmpty
    \/ \E e \in {"embed_content failed", "query failed"} : QueryFails(e)
    \/ QueryReturns(D)
    \/ SearchReturn

Sync ==
    \/ SyncFailsBeforeWriting
    \/ \E m \in PageSizes, b \in BatchSizes : SyncStart(m, b)
    \/ SyncBatchOk
    \/ SyncBatchFails
    \/ SyncExit

Next ==
    \/ \E k \in Keys, st \in Statuses : EditIssue(k, st)
    \/ Sync
    \/ Search(TopKs, Thresholds, Distances)

Spec == Init /\ [][Next]_vars

\* The collections a search may find: the issues K1.. in the order a first sync
\* wrote them, each open or closed. Only a sync run fills the collection, and it
\* cannot start where settings.chroma_db_dir does not resolve (InitSearch).
SearchIndexes ==
    LET key(i) == CASE i = 1 -> "K1" [] i = 2 -> "K2" [] OTHER -> "K3"
        sum(i) == CASE i = 1 -> "s1" [] i = 2 -> "s2" [] OTHER -> "s3"
    IN  UNION {{[i \in 1..n |-> EntryOf([key |-> key(i), summary |-> sum(i),
                                         status |-> st[i], updated |-> i])]
                : st \in [1..n -> Statuses]} : n \in 0..Cardinality(Keys)}

InitSearch ==
    /\ settings_chroma_db_dir \in BOOLEAN
    /\ tracker = InitialTracker
    /\ clock = 3
    /\ edits = 0
    /\ index \in SearchIndexes
    /\ (~settings_chroma_db_dir => index = <<>>)
    /\ IdleSync
    /\ chroma_client = None
    /\ embedding_model_name = None
    /\ jira_collection = None
    /\ IdleSearch
    /\ IdleSide
    /\ IdleFetch
    /\ IdleFn

NextSearch == Search(SearchTopKs, SearchThresholds, SearchDistances)

SpecSearch == InitSearch /\ [][NextSearch]_vars

---------------------------------------------------------------------------
(* Sync runs against a tracker that does not change, page by page *)

MaxIssues == 4

FetchPageSizes == {1, 2, 3, 1000}

\* Trackers holding 0 to MaxIssues issues, the lowest key updated last or first.
FetchTrackers ==
    {[k \in {ToString(i) : i \in 1..n} |->
        LET i == CHOOSE j \in 1..n : ToString(j) = k
        IN  [summary |-> "s1", status |-> IF i = 2 THEN "Closed" ELSE "New",
             updated |-> IF up THEN i ELSE n + 1 - i]]
        : n \in 0..MaxIssues, up \in BOOLEAN}

InitFetch ==
    /\ settings_chroma_db_dir = TRUE
    /\ tracker \in FetchTrackers
    /\ clock = MaxIssues
    /\ edits = 0
    /\ index = <<>>
    /\ IdleSync
    /\ chroma_client = None
    /\ embedding_model_name = None
    /\ jira_collection = None
    /\ IdleSearch
    /\ IdleSide
    /\ IdleFetch
    /\ IdleFn

NextFetch ==
    \/ SyncFailsBeforeWriting
    \/ \E m \in FetchPageSizes, b \in BatchSizes : FetchStart(m, b)
    \/ FetchPage
    \/ FetchPageFails
    \/ SyncBatchOk
    \/ SyncBatchFails
    \/ SyncExit

SpecFetch == InitFetch /\ [][NextFetch]_vars

\* The tracker answers every request, with a page or with an error.
SpecFetchLive == SpecFetch /\ WF_vars(FetchPage \/ FetchPageFails)

---------------------------------------------------------------------------
(* Searching a collection that holds more entries than one query returns *)

LargeSize == 11

LargeTopKs == {1, 2}
LargeThresholds == {-100, 160, 180}
LargeDistances == {40, 80, 100, 120, 500}

\* Collections of 1, 10 and LargeSize issues as a sync wrote them: all closed,
\* all open, or only the first or the last one open; issues report the same
\* failure in the same words except the last one.
LargeIndexes ==
    UNION {{[i \in 1..n |-> EntryOf([key |-> ToString(i),
                                      summary |-> IF i = n THEN "s2" ELSE "s1",
                                      status |-> IF i \in open THEN "New" ELSE "Closed",
                                      updated |-> i])]
              : open \in {{}, {1}, {n}, 1..n}} : n \in {1, N_RESULTS, LargeSize}}

InitLarge ==
    /\ settings_chroma_db_dir = TRUE
    /\ tracker = InitialTracker
    /\ clock = 3
    /\ edits = 0
    /\ index \in LargeIndexes
    /\ IdleSync
    /\ chroma_client = None
    /\ embedding_model_name = None
    /\ jira_collection = None
    /\ IdleSearch
    /\ IdleSide
    /\ IdleFetch
    /\ IdleFn

NextLarge ==
    \/ \E tk \in LargeTopKs, th \in LargeThresholds : CallClientFails(tk, th)
    \/ \E tk \in LargeTopKs, th \in LargeThresholds : CallCollectionFails(tk, th)
    \/ \E tk \in LargeTopKs, th \in LargeThresholds : CallGetsResources(tk, th)
    \/ CountFails
    \/ CountNonEmpty
    \/ \E e \in {"embed_content failed", "query failed"} : QueryFails(e)
    \/ QueryReturnsIn(LargeDistances, FALSE)
    \/ SearchReturn

SpecLarge == InitLarge /\ [][NextLarge]_vars

---------------------------------------------------------------------------
(* _normalize_description on its own *)

MaxDescription == 4

DescriptionChars ==
    {"h", "1", ".", "x", "SP", "LF", "CR", "NBSP",
     "{code}", "{code:java}", "{quote}", "{noformat}"}

Descriptions == UNION {[1..n -> DescriptionChars] : n \in 0..MaxDescription}

InitNormalize ==
    /\ settings_chroma_db_dir = TRUE
    /\ tracker = InitialTracker
    /\ clock = 3
    /\ edits = 0
    /\ index = <<>>
    /\ IdleSync
    /\ chroma_client = None
    /\ embedding_model_name = None
    /\ jira_collection = None
    /\ IdleSearch
    /\ IdleSide
    /\ IdleFetch
    /\ fnIn \in {[op |-> "normalize", description |-> d] : d \in Descriptions}
    /\ fnOut = <<>>

\* The description is normalised; then what came out is normalised once more.
Normalize ==
    /\ fnIn.op = "normalize"
    /\ Len(fnOut) < 2
    /\ fnOut' = Append(fnOut, NormalizeDescription(IF Len(fnOut) = 0 THEN fnIn.description
                                                    ELSE fnOut[Len(fnOut)]))
    /\ UNCHANGED <<settings_chroma_db_dir, fetchVars, sideVars, fnIn, index, trackerVars, syncVars,
                   globalVars, searchVars>>

NextNormalize == Normalize

SpecNormalize == InitNormalize /\ [][NextNormalize]_vars

---------------------------------------------------------------------------
(* The query text and the open/closed reading of a status, each on its own *)

FailureDescriptions == {EmptyText, <<"locator not found">>, <<"locator not found", "retried twice">>}
TestNames == {NoText, EmptyText, <<"login spec">>, <<"login spec", "chromium">>}
ErrorMessages == {NoText, EmptyText, <<"TimeoutError">>, <<"TimeoutError", "  at page.click">>}

ComposeInputs ==
    {[op |-> "compose", failure_description |-> f, test_name |-> t, error_message |-> e]
        : f \in FailureDescriptions, t \in TestNames, e \in ErrorMessages}

\* The status names of the tracker in the spellings a collection may hold.
StatusNames ==
    {"", "New", "Open", "To Do", "In Progress", "Release Pending",
     "closed", "Closed", "CLOSED", "cLoSeD", "Closed ",
     "resolved", "Resolved", "RESOLVED", "done", "Done", "DONE"}

\* The metadata of a stored entry, with a status or without one.
ClassifyInputs ==
    {[op |-> "classify", metadata |-> [key |-> "K1", summary |-> "s1"]]}
    \cup {[op |-> "classify", metadata |-> [key |-> "K1", summary |-> "s1", status |-> st]]
            : st \in StatusNames}

InitFn ==
    /\ settings_chroma_db_dir = TRUE
    /\ tracker = InitialTracker
    /\ clock = 3
    /\ edits = 0
    /\ index = <<>>
    /\ IdleSync
    /\ chroma_client = None
    /\ embedding_model_name = None
    /\ jira_collection = None
    /\ IdleSearch
    /\ IdleSide
    /\ IdleFetch
    /\ fnIn \in ComposeInputs \cup ClassifyInputs
    /\ fnOut = <<>>

\* The call builds search_query from its three text arguments.
ComposeQuery ==
    /\ fnIn.op = "compose"
    /\ fnOut = <<>>
    /\ fnOut' = <<SearchQuery(fnIn.failure_description, fnIn.test_name, fnIn.error_message)>>
    /\ UNCHANGED <<settings_chroma_db_dir, fetchVars, sideVars, fnIn, index, trackerVars, syncVars,
                   globalVars, searchVars>>

\* The call reads one retrieved entry that passes the threshold and formats it.
Classify ==
    /\ fnIn.op = "classify"
    /\ fnOut = <<>>
    /\ LET res == [ids |-> <<"K1">>, distances |-> <<0>>, metadatas |-> <<fnIn.metadata>>,
                   documents |-> <<"doc">>]
       IN  fnOut' = <<IssueInfo(Candidate(res, Similarities(res.distances), 1))>>
    /\ UNCHANGED <<settings_chroma_db_dir, fetchVars, sideVars, fnIn, index, trackerVars, syncVars,
                   globalVars, searchVars>>

NextFn == ComposeQuery \/ Classify

SpecFn == InitFn /\ [][NextFn]_vars

---------------------------------------------------------------------------
(* Vocabulary of the properties *)

Done == pc = "done"
Success == Done /\ response.kind = "success"
TextKinds == {"error", "empty_corpus", "no_results", "below_threshold", "success"}

\* clamp(x, lo, hi), written out.
Clamped(x, lo, hi) == IF x < lo THEN lo ELSE IF x > hi THEN hi ELSE x
EffectiveTopK == Clamped(args.top_k, 1, 2)
EffectiveThreshold == Clamped(args.similarity_threshold, 0, One)

Retrieved == DOMAIN results.ids
\* Raw similarity of the i-th retrieved candidate: 1 - distance / 2, doubled to stay whole.
RawTwice(i) == 2 * One - results.distances[i]
Reaches(i, thr) == RawTwice(i) >= 2 * thr
RetrievedOpen(i) == results.metadatas[i].status \notin {"Closed", "Resolved", "Done"}

Listed == DOMAIN response.issues
ListedKeys == {response.issues[i].key : i \in Listed}
Boosted(i) == response.issues[i].similarity +
              (IF response.issues[i].indicator = "OPEN" THEN One \div 10 ELSE 0)

\* The retrieved candidate a is listed, and b is listed behind it or not at all.
Ahead(a, b) ==
    \E i \in Listed :
        /\ response.issues[i].key = results.ids[a]
        /\ \A j \in Listed : response.issues[j].key = results.ids[b] => i < j

---------------------------------------------------------------------------
(* C1 *)

\* C1: search_similar_jira_issues never raises. Every finished call returned one
\* of its texts, and a call in which resource initialisation, count, the embedding
\* provider or the query raised returned the error text carrying that exception.
C1_NeverRaises ==
    Done => /\ response.kind \in TextKinds
            /\ fault # None => (response.kind = "error" /\ response.text = fault)

C1_Witness ==
    /\ Done
    /\ fault = "embed_content failed"
    /\ response.kind = "error"

---------------------------------------------------------------------------
(* C2 *)

\* C2 as stated: no issue listed in a success response has a raw similarity
\* below the threshold the caller supplied.
C2_SuppliedThreshold ==
    Success => \A i \in Listed : response.issues[i].similarity >= args.similarity_threshold

\* C2, amended: no issue listed in a success response has a raw similarity below
\* the supplied threshold clamped to [0, 1], and each listed similarity is that of
\* a retrieved candidate.
C2_ClampedThreshold ==
    Success => \A i \in Listed :
        /\ response.issues[i].similarity >= EffectiveThreshold
        /\ \E r \in Retrieved : /\ results.ids[r] = response.issues[i].key
                                /\ RawTwice(r) = 2 * response.issues[i].similarity

\* A listed issue sits exactly on the threshold while a retrieved one was dropped.
C2_Witness ==
    /\ Success
    /\ \E i \in Listed : response.issues[i].similarity = args.similarity_threshold
    /\ \E r \in Retrieved : ~Reaches(r, EffectiveThreshold)

---------------------------------------------------------------------------
(* C3 *)

\* C3: a response lists at most clamp(top_k, 1, 2) issues, for top_k below 1 and
\* above 2 as well, and a success response lists exactly min(clamp(top_k, 1, 2),
\* number of retrieved candidates whose similarity reaches the threshold in
\* force, i.e. the clamped one). Only a success response lists issues.
C3_TopKBound ==
    /\ (Done /\ ~Success) => "issues" \notin DOMAIN response
    /\ Success =>
          /\ response.found = Len(response.issues)
          /\ Len(response.issues) =
                Min(EffectiveTopK,
                    Cardinality({r \in Retrieved : Reaches(r, EffectiveThreshold)}))
          /\ Len(response.issues) <= EffectiveTopK
          /\ Cardinality(ListedKeys) = Len(response.issues)

\* top_k = 3 with three candidates over the threshold: two are listed.
C3_Witness ==
    /\ Success
    /\ args.top_k = 3
    /\ Cardinality({r \in Retrieved : Reaches(r, EffectiveThreshold)}) = 3
    /\ Len(response.issues) = 2

---------------------------------------------------------------------------
(* C4 *)

\* Exactly two candidates were retrieved, a closed one with similarity c and an
\* open one with similarity o.
TwoCandidates(c, o) ==
    /\ Done
    /\ fault = None
    /\ Len(results.ids) = 2
    /\ \E a, b \in Retrieved :
          /\ ~RetrievedOpen(a) /\ RawTwice(a) = 2 * c
          /\ RetrievedOpen(b) /\ RawTwice(b) = 2 * o

\* Both are listed, the one whose open/closed indicator is first in front.
ListsBoth(first) ==
    /\ response.kind = "success"
    /\ Len(response.issues) = 2
    /\ response.issues[1].indicator = first
    /\ response.issues[2].indicator # first

\* C4: the issues of a success response are in non-increasing order of raw
\* similarity + 0.10 if OPEN. With top_k 2 and threshold 0.45: closed 0.80 and
\* open 0.75 lists the open one first, closed 0.90 and open 0.70 the closed one,
\* closed 0.82 and open ("New") 0.70 both with the closed one first.
C4_BoostedOrder ==
    /\ Success => \A i, j \in Listed : i < j => Boosted(i) >= Boosted(j)
    /\ (TwoCandidates(160, 150) /\ args = [top_k |-> 2, similarity_threshold |-> 90])
          => ListsBoth("OPEN")
    /\ (TwoCandidates(180, 140) /\ args = [top_k |-> 2, similarity_threshold |-> 90])
          => ListsBoth("CLOSED")
    /\ (TwoCandidates(164, 140) /\ args = [top_k |-> 2, similarity_threshold |-> 90])
          => ListsBoth("CLOSED")

\* Closed 0.80 and open 0.75 were retrieved and the open one is listed first.
C4_Witness ==
    /\ TwoCandidates(160, 150)
    /\ args = [top_k |-> 2, similarity_threshold |-> 90]
    /\ ListsBoth("OPEN")

C4_Scenario2 ==
    TwoCandidates(180, 140) /\ args = [top_k |-> 2, similarity_threshold |-> 90]
        /\ ListsBoth("CLOSED")

C4_Scenario3 ==
    TwoCandidates(164, 140) /\ args = [top_k |-> 2, similarity_threshold |-> 90]
        /\ ListsBoth("CLOSED") /\ response.issues[2].status = "New"

---------------------------------------------------------------------------
(* C5 *)

\* Among the candidates over the threshold: a closed one, c, whose raw similarity
\* exceeds that of an open one, o, by m with lo <= m <= hi (in twice the unit).
Margin(c, o, lo, hi) ==
    /\ Reaches(c, EffectiveThreshold) /\ Reaches(o, EffectiveThreshold)
    /\ ~RetrievedOpen(c) /\ RetrievedOpen(o)
    /\ RawTwice(c) - RawTwice(o) >= lo
    /\ RawTwice(c) - RawTwice(o) <= hi

\* C5 as stated: the open candidate ranks ahead for every margin up to 0.10, a
\* margin of exactly 0.10 included, and the closed one for every larger margin.
C5_MarginInclusive ==
    Success => \A c, o \in Retrieved :
        /\ Margin(c, o, 0, 2 * (One \div 10)) => ~Ahead(c, o)
        /\ Margin(c, o, 2 * (One \div 10) + 1, 4 * One) => ~Ahead(o, c)

\* C5, amended: the closed candidate is never listed ahead of the open one when
\* its margin is below 0.10; at a margin of exactly 0.10 the boosted scores tie
\* and the closed one, which the index returned first, stays ahead: the open one
\* is never listed ahead of it, as for every larger margin.
C5_MarginStrict ==
    Success => \A c, o \in Retrieved :
        /\ Margin(c, o, 0, 2 * (One \div 10) - 1) => ~Ahead(c, o)
        /\ Margin(c, o, 2 * (One \div 10), 4 * One) => ~Ahead(o, c)

\* Closed 0.80 and open 0.70, both listed: the closed one is first.
C5_Witness ==
    /\ Success
    /\ Len(response.issues) = 2
    /\ \E c, o \in Retrieved :
          /\ Margin(c, o, 2 * (One \div 10), 2 * (One \div 10))
          /\ response.issues[1].key = results.ids[c]
          /\ response.issues[2].key = results.ids[o]

---------------------------------------------------------------------------
(* C6 *)

CollaboratorFaults ==
    {"PersistentClient failed", "get_or_create_collection failed", "count failed",
     "embed_content failed", "query failed"}

\* C6: a call that finds the collection empty, with no collaborator failing,
\* returns the "empty corpus" text that asks for the sync to be run: not an error
\* text and not a success.
C6_EmptyCorpus ==
    (Done /\ Len(index) = 0 /\ fault \notin CollaboratorFaults)
        => response.kind = "empty_corpus"

---------------------------------------------------------------------------
(* C7 *)

NoneReaches == \A r \in Retrieved : ~Reaches(r, EffectiveThreshold)

\* C7: when the collection is not empty and no retrieved candidate reaches the
\* threshold, the call returns the below-threshold text, which is not a success
\* text and names one candidate, the first of those with the highest similarity
\* among the retrieved, by its id and its similarity.
C7_BelowThreshold ==
    (Done /\ fault = None /\ Len(results.ids) > 0 /\ NoneReaches) =>
        /\ response.kind = "below_threshold"
        /\ \E r \in Retrieved :
              /\ response.best_key = results.ids[r]
              /\ \A q \in Retrieved : RawTwice(q) <= RawTwice(r)
              /\ \A q \in Retrieved : q < r => RawTwice(q) < RawTwice(r)
              /\ 2 * One * response.best_similarity = 1000 * RawTwice(r)

\* Best candidate 0.30 under threshold 0.45, a worse one retrieved with it.
C7_Witness ==
    /\ Done
    /\ response.kind = "below_threshold"
    /\ args.similarity_threshold = 90
    /\ response.best_similarity = 300
    /\ \E r \in Retrieved : RawTwice(r) < 0

---------------------------------------------------------------------------
(* C8 *)

\* C8: every issue listed in a success response carries the similarity
\* 1 - distance / 2 of a retrieved candidate, and 0 <= similarity <= 1, whatever
\* non-negative distances the collection returned.
C8_SimilarityBound ==
    Success => \A i \in Listed :
        /\ 0 <= response.issues[i].similarity
        /\ response.issues[i].similarity <= One
        /\ \E r \in Retrieved : /\ results.ids[r] = response.issues[i].key
                                /\ results.distances[r] >= 0
                                /\ 2 * response.issues[i].similarity = RawTwice(r)

\* A success under a negative supplied threshold, with a candidate at distance
\* 2.5 (similarity -0.25) retrieved and not listed.
C8_Witness ==
    /\ Success
    /\ args.similarity_threshold < 0
    /\ Len(response.issues) < EffectiveTopK
    /\ \E r \in Retrieved : results.distances[r] > 2 * One

---------------------------------------------------------------------------
(* C9 *)

Entries(idx) == {idx[j] : j \in DOMAIN idx}
Running == syncPc \in {"batch", "done", "failed"}

\* The entry is the one sync_to_chromadb prepares for this issue.
Holds(e, issue) ==
    /\ e.id = issue.key
    /\ e.metadata = [key |-> issue.key, summary |-> issue.summary,
                     status |-> issue.status, updated |-> issue.updated]
    /\ e.document = [summary |-> issue.summary, status |-> issue.status]
    /\ e.embedding.text = e.document

\* C9: the collection holds one entry per issue id; the vector, document and
\* metadata of an entry all stem from one upsert (nothing of an older version is
\* left); and every issue of the batches a run has written is held exactly as
\* that run prepared it, also when an earlier run wrote another summary.
C9_UpsertReplaces ==
    /\ \A i, j \in DOMAIN index : i # j => index[i].id # index[j].id
    /\ \A e \in Entries(index) :
          /\ e.metadata.key = e.id
          /\ e.document = [summary |-> e.metadata.summary, status |-> e.metadata.status]
          /\ e.embedding.text = e.document
    /\ Running => \A j \in 1..Min(syncOffset, Len(syncIssues)) :
          \E e \in Entries(index) : Holds(e, syncIssues[j])

\* A finished run has replaced the summary an earlier run had stored for an id.
C9_Witness ==
    /\ syncPc = "done"
    /\ Len(index) = Len(syncIndex0)
    /\ \E old \in Entries(syncIndex0), new \in Entries(index) :
          /\ old.id = new.id
          /\ old.metadata.summary # new.metadata.summary

---------------------------------------------------------------------------
(* C10 *)

\* The number of issues in the batches before the one that raised.
Committed == (syncFault - 1) * syncBatchSize
CommittedKeys == {syncIssues[j].key : j \in 1..Committed}
EntryFor(idx, k) == {e \in Entries(idx) : e.id = k}

\* C10: when embed_content or upsert raises for batch k, the run ends with the
\* error raised to its caller, the issues of batches 1..k-1 are in the collection
\* as prepared, and no issue of batch k or a later batch has been written: their
\* ids are held as before the run, or not at all.
C10_FailFast ==
    syncFault # 0 =>
        /\ syncPc = "failed"
        /\ \A j \in 1..Committed : \E e \in Entries(index) : Holds(e, syncIssues[j])
        /\ \A j \in (Committed + 1)..Len(syncIssues) :
              syncIssues[j].key \notin CommittedKeys =>
                  EntryFor(index, syncIssues[j].key) = EntryFor(syncIndex0, syncIssues[j].key)
        /\ {e.id : e \in Entries(index)} = {e.id : e \in Entries(syncIndex0)} \cup CommittedKeys

\* Three batches of one issue: the second raised, the first is in the collection,
\* which was empty before the run.
C10_Witness ==
    /\ syncFault = 2
    /\ syncPc = "failed"
    /\ syncBatchSize = 1
    /\ Len(syncIssues) = 3
    /\ syncIndex0 = <<>>
    /\ Len(index) = 1

---------------------------------------------------------------------------
(* C11 *)

\* C11: normalisation is idempotent: normalising a normalised description gives
\* the same text again, normalize(normalize(x)) = normalize(x).
C11_Idempotent == Len(fnOut) = 2 => fnOut[2] = fnOut[1]

\* The descriptions x CR {noformat} x and x CR {code} x, normalised twice:
\* the macro leaves CR LF behind, which only the second pass turns into LF.
C11_CrLfLeftBehind ==
    /\ Len(fnOut) = 2
    /\ fnIn.description \in {<<"x", "CR", "{noformat}", "x">>, <<"x", "CR", "{code}", "x">>}
    /\ fnOut[1][2] = "CR"
    /\ fnOut[2][2] = "LF"

---------------------------------------------------------------------------
(* C12 *)

Composed == fnIn.op = "compose" /\ Len(fnOut) = 1
\* An optional text is given when it is neither None nor the empty string.
Given(text) == text # <<>> /\ text # <<"">>
\* The labels of the lines of the query text that open an element, in order.
Labels(q) == SelectSeq([i \in DOMAIN q |-> q[i].label], LAMBDA l : l # None)
\* The lines of the query text from the one labelled l up to the next label.
LinesOf(q, l) ==
    LET a == CHOOSE i \in DOMAIN q : q[i].label = l
        b == CHOOSE j \in a..Len(q) :
                /\ \A k \in (a + 1)..j : q[k].label = None
                /\ j < Len(q) => q[j + 1].label # None
    IN  [k \in 1..(b - a + 1) |-> q[a + k - 1].text]

\* C12: the query text holds the error message first when one is given, then the
\* failure description, which is always there, then the test name when one is
\* given; an optional input that is not given contributes no line, and each
\* element carries the text of its input.
C12_QueryOrder ==
    Composed =>
        LET q == fnOut[1]
            e == fnIn.error_message
            t == fnIn.test_name
        IN  /\ Labels(q) = (IF Given(e) THEN <<"Error Message">> ELSE <<>>)
                            \o <<"Failure Description">>
                            \o (IF Given(t) THEN <<"Test Name">> ELSE <<>>)
            /\ LinesOf(q, "Failure Description") = fnIn.failure_description
            /\ Given(e) => LinesOf(q, "Error Message") = e
            /\ Given(t) => LinesOf(q, "Test Name") = t
            /\ Len(q) = Len(fnIn.failure_description) + (IF Given(e) THEN Len(e) ELSE 0)
                           + (IF Given(t) THEN Len(t) ELSE 0)

\* All three inputs given: three elements, the error message in front.
C12_Witness ==
    /\ Composed
    /\ Given(fnIn.error_message) /\ Given(fnIn.test_name)
    /\ Labels(fnOut[1]) = <<"Error Message", "Failure Description", "Test Name">>

\* Only the failure description given: one element.
C12_OnlyDescription ==
    /\ Composed
    /\ fnIn.error_message = <<>> /\ fnIn.test_name = <<"">>
    /\ Labels(fnOut[1]) = <<"Failure Description">>

---------------------------------------------------------------------------
(* C13 *)

Classified == fnIn.op = "classify" /\ Len(fnOut) = 1
ClosedSpellings ==
    {"closed", "Closed", "CLOSED", "cLoSeD", "resolved", "Resolved", "RESOLVED",
     "done", "Done", "DONE"}

\* C13: an issue is shown as CLOSED exactly when its stored status is 'closed',
\* 'resolved' or 'done' in any mix of upper and lower case; with any other
\* status, an empty one or none at all, it is shown as OPEN.
C13_ClosedSet ==
    Classified =>
        /\ fnOut[1].indicator \in {"OPEN", "CLOSED"}
        /\ fnOut[1].indicator = "CLOSED" <=>
              ("status" \in DOMAIN fnIn.metadata /\ fnIn.metadata.status \in ClosedSpellings)

\* "RESOLVED" is shown as CLOSED.
C13_Witness ==
    /\ Classified
    /\ "status" \in DOMAIN fnIn.metadata
    /\ fnIn.metadata.status = "RESOLVED"
    /\ fnOut[1].indicator = "CLOSED"

\* An entry without a status is shown as OPEN.
C13_MissingStatus ==
    /\ Classified
    /\ "status" \notin DOMAIN fnIn.metadata
    /\ fnOut[1].indicator = "OPEN"

---------------------------------------------------------------------------
(* C14 *)

\* The band of a raw similarity: at least 90%, at least 80%, or less.
BandOf(similarity) ==
    IF 10 * similarity >= 9 * One THEN "very_high"
    ELSE IF 10 * similarity >= 8 * One THEN "high"
    ELSE "moderate"

\* The highest raw similarity among the listed issues.
HighestListed ==
    CHOOSE x \in {response.issues[i].similarity : i \in Listed} :
        \A j \in Listed : response.issues[j].similarity <= x

\* C14 as stated: the recommendation band of a success response is the band of
\* the highest raw similarity among the listed issues, also when the open boost
\* puts an open issue of lower similarity first.
C14_BandOfHighest == Success => response.band = BandOf(HighestListed)

\* C14, amended: the recommendation band of a success response is the band of the
\* raw (unboosted) similarity of the first listed issue, the one with the highest
\* boosted score, and the recommendation names that issue.
C14_BandOfFirst ==
    Success =>
        /\ response.band = BandOf(response.issues[1].similarity)
        /\ response.band_key = response.issues[1].key

\* Open 0.75 is listed ahead of closed 0.80: the band is moderate, that of 0.75,
\* while the highest raw similarity listed is in the high band.
C14_Witness ==
    /\ Success
    /\ Len(response.issues) = 2
    /\ response.issues[1].indicator = "OPEN"
    /\ 4 * response.issues[1].similarity = 3 * One
    /\ 5 * response.issues[2].similarity = 4 * One
    /\ response.band = "moderate"
    /\ BandOf(HighestListed) = "high"

---------------------------------------------------------------------------
(* C15 *)

\* C15: no issue id appears more than once among the issues listed in one
\* response, nor among the candidates the collection returned for it, whatever
\* sync runs came before the search.
C15_NoDuplicateIds ==
    /\ \A a, b \in Retrieved : a # b => results.ids[a] # results.ids[b]
    /\ Success => \A i, j \in Listed : i # j => response.issues[i].key # response.issues[j].key

\* Two issues are listed, one of them as the run under way has just rewritten it
\* over the entry an earlier run had stored under the same id.
C15_Witness ==
    /\ Success
    /\ Len(response.issues) = 2
    /\ syncPc \in {"batch", "done"}
    /\ \E i \in Listed, old \in Entries(syncIndex0) :
          /\ old.id = response.issues[i].key
          /\ old.metadata.summary # response.issues[i].summary

---------------------------------------------------------------------------
(* C16 *)

\* Twice the boosted score of the r-th retrieved candidate.
BoostedTwice(r) == RawTwice(r) + (IF RetrievedOpen(r) THEN 2 * (One \div 10) ELSE 0)

\* C16: of two candidates over the threshold whose boosted scores are equal, the
\* one the collection returned later is never listed ahead of the one it
\* returned earlier: when both are listed they are in retrieval order, and when
\* one is cut off it is the later one.
C16_StableTies ==
    Success => \A a, b \in Retrieved :
        (/\ a < b
         /\ Reaches(a, EffectiveThreshold) /\ Reaches(b, EffectiveThreshold)
         /\ BoostedTwice(a) = BoostedTwice(b)) => ~Ahead(b, a)

\* Three candidates with one boosted score, two closed ones and behind them an
\* open one of lower similarity: the first two retrieved are listed, in that order.
C16_Witness ==
    /\ Success
    /\ Len(results.ids) = 3
    /\ BoostedTwice(1) = BoostedTwice(2) /\ BoostedTwice(2) = BoostedTwice(3)
    /\ ~RetrievedOpen(1) /\ ~RetrievedOpen(2) /\ RetrievedOpen(3)
    /\ Len(response.issues) = 2
    /\ response.issues[1].key = results.ids[1]
    /\ response.issues[2].key = results.ids[2]

---------------------------------------------------------------------------
(* C17 *)

\* The call has queried the collection (no step of it raised).
Queried == Done /\ DOMAIN qdist # {}
\* The stored entries whose similarity to the query reaches the threshold in
\* force, retrieved or not.
EntriesReaching ==
    {j \in DOMAIN index : 2 * One - qdist[index[j].embedding] >= 2 * EffectiveThreshold}

\* C17: whenever at least one entry of the collection has a similarity to the
\* query that reaches the threshold in force, a call that got as far as
\* filtering returns a success response that lists at least one issue, each one
\* an entry that reaches the threshold; this for collections below, at and above
\* the number of entries a query returns, all open, all closed or mixed.
C17_NeverEmpty ==
    (Queried /\ EntriesReaching # {}) =>
        /\ Success
        /\ Len(response.issues) >= 1
        /\ \A i \in Listed :
              \E j \in EntriesReaching : index[j].id = response.issues[i].key

\* LargeSize entries, one more than a query returns, of which exactly one
\* reaches the threshold, and exactly: it is the one listed.
C17_Witness ==
    /\ Success
    /\ Len(index) = LargeSize
    /\ Len(results.ids) = N_RESULTS
    /\ Cardinality(EntriesReaching) = 1
    /\ \E j \in EntriesReaching : One - qdist[index[j].embedding] \div 2 = args.similarity_threshold
    /\ Len(response.issues) = 1

---------------------------------------------------------------------------
(* C18 *)

Fetching == syncPc = "fetch"
\* fetch_jira_issues has returned its list to main.
Fetched == syncPc \in {"batch", "done"}
IssueCount == Cardinality(DOMAIN tracker)

\* While the loop runs it has asked for whole pages only and not past the last
\* issue; when it has returned, every page but the last one was full, the last
\* one was short (empty when the issues fill whole pages), and the list holds
\* every issue of the tracker once, with its fields, most recently updated first.
FetchedAll ==
    /\ Fetching =>
          /\ fetchStartAt = fetchMaxResults * Len(fetchPages)
          /\ fetchStartAt <= IssueCount
          /\ \A i \in DOMAIN fetchPages : fetchPages[i] = fetchMaxResults
    /\ Fetched =>
          /\ Len(fetchPages) = (IssueCount \div fetchMaxResults) + 1
          /\ \A i \in 1..(Len(fetchPages) - 1) : fetchPages[i] = fetchMaxResults
          /\ fetchPages[Len(fetchPages)] < fetchMaxResults
          /\ Len(syncIssues) = IssueCount
          /\ {syncIssues[i].key : i \in DOMAIN syncIssues} = DOMAIN tracker
          /\ \A i, j \in DOMAIN syncIssues :
                i < j => syncIssues[i].updated > syncIssues[j].updated
          /\ \A i \in DOMAIN syncIssues :
                /\ syncIssues[i].updated = tracker[syncIssues[i].key].updated
                /\ syncIssues[i].summary = tracker[syncIssues[i].key].summary
                /\ syncIssues[i].status = tracker[syncIssues[i].key].status

\* C18: against a tracker that does not change and holds N issues,
\* fetch_jira_issues with page size P >= 1 terminates (the loop, once entered, is
\* left, the tracker answering each request), stops after the first page with
\* fewer than P records, and returns all N issues once each, most recently
\* updated first.
C18_FetchAll == []FetchedAll /\ (Fetching ~> ~Fetching)

\* Four issues in pages of two: two full pages, then an empty one, and the four
\* issues are handed to the batch loop.
C18_Witness ==
    /\ Fetched
    /\ IssueCount = 4
    /\ fetchPages = <<2, 2, 0>>
    /\ Len(syncIssues) = 4

\* Four issues in pages of three: a full page, then a page of one.
C18_ShortPage ==
    /\ Fetched
    /\ fetchPages = <<3, 1>>

---------------------------------------------------------------------------
(* C19 *)

\* C19: when a page request fails, whichever page it is, the run ends with the
\* error raised to its caller, nothing is handed to sync_to_chromadb, and the
\* collection is as it was before the run: no issue of the pages already
\* fetched has been written.
C19_FetchFailure ==
    fetchFault # 0 =>
        /\ syncPc = "failed"
        /\ syncIssues = <<>>
        /\ syncOffset = 0
        /\ index = syncIndex0

\* The second request failed after a page was collected; the collection holds
\* what an earlier, interrupted run left, and not every issue of that page.
C19_Witness ==
    /\ fetchFault = 2
    /\ syncPc = "failed"
    /\ Len(fetchAllIssues) >= 2
    /\ Len(index) >= 1
    /\ \E i \in DOMAIN fetchAllIssues : ~HasId(index, fetchAllIssues[i].key)

---------------------------------------------------------------------------
(* C20 *)

\* C20: no step of a search call changes the collection, whatever the call ends
\* with: from the start of the call to its return every stored entry (id,
\* vector, document, metadata) and their number are what the sync runs made them.
C20_ReadOnly == [][pc' # pc => index' = index]_vars

\* A call has gone through all its steps over a collection of three entries and
\* ended with the below-threshold text; the three entries are there.
C20_Witness ==
    /\ Done
    /\ response.kind = "below_threshold"
    /\ Len(results.ids) = Cardinality(Keys)
    /\ Len(index) = Cardinality(Keys)
    /\ \A r \in Retrieved : \E e \in Entries(index) :
          e.id = results.ids[r] /\ e.metadata = results.metadatas[r]

---------------------------------------------------------------------------
(* An issue leaves the project; C21 *)

\* The issue is deleted in the tracker or moved to another project: the query
\* "project = <key> ORDER BY updated DESC" returns it no more.
LeaveProject(k) ==
    /\ edits < MaxEdits
    /\ k \in DOMAIN tracker
    /\ tracker' = [j \in DOMAIN tracker \ {k} |-> tracker[j]]
    /\ edits' = edits + 1
    /\ UNCHANGED <<clock, envVars, index, syncVars, globalVars, searchVars>>

\* Sync runs and search calls while issues are edited and leave the project.
NextScope ==
    \/ \E k \in Keys, st \in Statuses : EditIssue(k, st)
    \/ \E k \in Keys : LeaveProject(k)
    \/ Sync
    \/ Search(TopKs, Thresholds, Distances)

SpecScope == Init /\ [][NextScope]_vars

IdsOf(idx) == {idx[j].id : j \in DOMAIN idx}

\* C21: no step of a sync run, of a search call or of the tracker takes an id
\* out of the collection: every id held before the step is held after it, also
\* by a run whose fetch no longer returns the issue.
C21_NeverShrinks == [][IdsOf(index) \subseteq IdsOf(index')]_vars

\* A run has completed whose fetch did not return an issue that an earlier run
\* had written, because the issue left the project in between; its id is held.
C21_Witness ==
    /\ syncPc = "done"
    /\ syncFault = 0
    /\ Len(syncIssues) >= 1
    /\ syncOffset >= Len(syncIssues)
    /\ \E id \in IdsOf(index) :
          /\ id \notin DOMAIN tracker
          /\ \A i \in DOMAIN syncIssues : syncIssues[i].key # id

---------------------------------------------------------------------------
(* C22 *)

\* A run of sync_to_chromadb has gone through its whole loop, or had no loop
\* to go through.
Synced == syncPc = "done" /\ syncFault = 0
BatchCount == IF Len(syncIssues) = 0 THEN 0
              ELSE (Len(syncIssues) + syncBatchSize - 1) \div syncBatchSize
\* The positions in the record list that make up batch b.
BatchRange(b) ==
    ((b - 1) * syncBatchSize + 1)..Min(b * syncBatchSize, Len(syncIssues))
UpsertsHolding(r) ==
    {c \in DOMAIN syncCalls :
        /\ syncCalls[c].op = "upsert"
        /\ \E j \in DOMAIN syncCalls[c].ids : syncCalls[c].ids[j] = syncIssues[r].key}

\* C22: a completed run over n records has issued, for b = 1..ceil(n/batchSize)
\* in turn, one embedding request with the documents of records
\* (b-1)*batchSize+1 .. min(b*batchSize, n) in order and then one upsert of the
\* ids of the same records, and nothing else: every batch but the last has
\* batchSize records, every record is in exactly one batch, and for an empty
\* list there is no request and the collection is as the run found it.
C22_Batches ==
    Synced =>
        /\ Len(syncCalls) = 2 * BatchCount
        /\ \A b \in 1..BatchCount :
              LET first == (b - 1) * syncBatchSize
                  size == Cardinality(BatchRange(b))
              IN  /\ size >= 1
                  /\ b < BatchCount => size = syncBatchSize
                  /\ syncCalls[2 * b - 1].op = "embed_content"
                  /\ syncCalls[2 * b - 1].documents =
                        [j \in 1..size |-> CreateSearchableText(syncIssues[first + j])]
                  /\ syncCalls[2 * b].op = "upsert"
                  /\ syncCalls[2 * b].ids = [j \in 1..size |-> syncIssues[first + j].key]
        /\ \A r \in DOMAIN syncIssues : Cardinality(UpsertsHolding(r)) = 1
        /\ Len(syncIssues) = 0 => syncCalls = <<>> /\ index = syncIndex0

\* Three records in batches of two: two embedding requests and two upserts, the
\* last batch holding the one record left.
C22_Witness ==
    /\ Synced
    /\ Len(syncIssues) = 3
    /\ syncBatchSize = 2
    /\ Len(syncCalls) = 4
    /\ Len(syncCalls[2].ids) = 2
    /\ Len(syncCalls[4].ids) = 1

---------------------------------------------------------------------------
(* C23 *)

\* C23 as stated: every similarity a call derives from a retrieved distance is
\* between 0 and 1, the one reported as "Closest match" in the below-threshold
\* text included.
C23_UnitInterval ==
    (Done /\ fault = None /\ Len(results.ids) > 0) =>
        /\ \A r \in Retrieved : 0 <= RawTwice(r) /\ RawTwice(r) <= 2 * One
        /\ response.kind = "below_threshold" =>
              0 <= response.best_similarity /\ response.best_similarity <= 1000

\* The closest candidate is at distance 2.5: it is reported with -25.0%.
C23_NegativeClosest ==
    /\ Done
    /\ response.kind = "below_threshold"
    /\ response.best_similarity = -250
    /\ \A r \in Retrieved : results.distances[r] = 500

---------------------------------------------------------------------------
(* C24 *)

\* The retrieved candidates that pass the filter: raw similarity against the
\* threshold in force.
Passing == {r \in Retrieved : Reaches(r, EffectiveThreshold)}
\* An open candidate under the threshold that the open boost would lift to it.
LiftedByBoost(r) ==
    /\ RetrievedOpen(r)
    /\ ~Reaches(r, EffectiveThreshold)
    /\ BoostedTwice(r) >= 2 * EffectiveThreshold

\* C24: the filter compares the raw similarity with the threshold, before any
\* boost: a candidate whose raw similarity is below the threshold is never
\* listed, an open one whose similarity + 0.10 reaches the threshold included;
\* the call succeeds exactly when some raw similarity reaches the threshold, and
\* when the passing candidates fit in top_k the listed issues are exactly those,
\* open or not.
C24_FilterBeforeBoost ==
    (Done /\ fault = None /\ Len(results.ids) > 0) =>
        /\ response.kind = "success" <=> Passing # {}
        /\ Success => \A r \in Retrieved :
              ~Reaches(r, EffectiveThreshold) => results.ids[r] \notin ListedKeys
        /\ (Success /\ Cardinality(Passing) <= EffectiveTopK) =>
              ListedKeys = {results.ids[r] : r \in Passing}

\* Threshold 0.80, top_k 2: a closed candidate at 0.80 is the only one listed,
\* while an open one at 0.75 (0.85 with the boost) was retrieved with it.
C24_Witness ==
    /\ Success
    /\ args = [top_k |-> 2, similarity_threshold |-> 160]
    /\ Len(response.issues) = 1
    /\ response.issues[1].indicator = "CLOSED"
    /\ \E r \in Retrieved : LiftedByBoost(r) /\ RawTwice(r) = 300

---------------------------------------------------------------------------
(* C25 *)

\* Boosted score, doubled, of the j-th stored entry against the query.
EntryBoostedTwice(j) ==
    2 * One - qdist[index[j].embedding]
        + (IF index[j].metadata.status \notin {"Closed", "Resolved", "Done"}
           THEN 2 * (One \div 10) ELSE 0)
IsListed(j) == index[j].id \in ListedKeys
IsRetrieved(j) == \E r \in Retrieved : results.ids[r] = index[j].id
\* The listed issues are n of the entries in the set S with no entry of S left
\* out that has a higher boosted score than a listed one.
TopRankedAmong(S, n) ==
    /\ Len(response.issues) = Min(n, Cardinality(S))
    /\ \A i \in Listed : \E j \in S : index[j].id = response.issues[i].key
    /\ \A i \in Listed : \A j \in S :
          ~IsListed(j) => EntryBoostedTwice(j) <= 2 * Boosted(i)

\* C25 as stated: the listed issues are the clamp(top_k, 1, 2) highest-ranked by
\* boosted score among all entries of the collection whose raw similarity
\* reaches the threshold, whatever the size of the collection.
C25_TopOfCollection ==
    (Queried /\ Success) => TopRankedAmong(EntriesReaching, EffectiveTopK)

\* C25, amended: the listed issues are the clamp(top_k, 1, 2) highest-ranked by
\* boosted score among the entries the query retrieved whose raw similarity
\* reaches the threshold; the retrieved are the min(10, size) nearest entries, so
\* the ranking is over the whole collection only when it holds at most 10.
C25_TopOfRetrieved ==
    (Queried /\ Success) =>
        /\ TopRankedAmong({j \in EntriesReaching : IsRetrieved(j)}, EffectiveTopK)
        /\ Len(results.ids) = Min(N_RESULTS, Len(index))
        /\ \A j, k \in DOMAIN index :
              (IsRetrieved(j) /\ ~IsRetrieved(k)) =>
                  qdist[index[j].embedding] <= qdist[index[k].embedding]
        /\ Len(index) <= N_RESULTS => TopRankedAmong(EntriesReaching, EffectiveTopK)

\* Ten closed issues at 0.80 and an open one at 0.75, the eleventh nearest: two
\* closed ones are listed and the open one, 0.85 with its boost, was never seen.
C25_Witness ==
    /\ Queried /\ Success
    /\ Len(index) = LargeSize
    /\ Len(response.issues) = 2
    /\ \A i \in Listed : response.issues[i].similarity = 160
    /\ \E j \in EntriesReaching :
          /\ ~IsRetrieved(j)
          /\ EntryBoostedTwice(j) = 340

---------------------------------------------------------------------------
(* Two runs of jira_sync_to_chroma.main at once; C26 *)

\* A second process: its fetch_jira_issues returned and its batch loop starts.
OtherStart(max_results, batch_size) ==
    /\ other.pc = "idle"
    /\ settings_chroma_db_dir
    /\ LET issues == FetchJiraIssues(tracker, max_results)
       IN  other' = [pc |-> IF Len(issues) = 0 THEN "done" ELSE "batch",
                     issues |-> issues, offset |-> 0, batch_size |-> batch_size]
    /\ UNCHANGED <<settings_chroma_db_dir, fetchVars, fnVars, threadVars, slackVars>>
    /\ UNCHANGED <<index, trackerVars, syncVars, globalVars, searchVars>>

\* One iteration of its loop: the batch it fetched earlier is upserted.
OtherBatchOk ==
    /\ other.pc = "batch"
    /\ ~HasDuplicateIds(Batch(other.issues, other.offset, other.batch_size))
    /\ index' = Upsert(index, Batch(other.issues, other.offset, other.batch_size))
    /\ other' = [other EXCEPT
                   !.offset = other.offset + other.batch_size,
                   !.pc = IF other.offset + other.batch_size >= Len(other.issues)
                          THEN "done" ELSE "batch"]
    /\ UNCHANGED <<settings_chroma_db_dir, fetchVars, fnVars, threadVars, slackVars>>
    /\ UNCHANGED <<trackerVars, syncVars, globalVars, searchVars>>

\* One iteration whose embed_content or upsert raises.
OtherBatchFails ==
    /\ other.pc = "batch"
    /\ other' = [other EXCEPT
                   !.pc = OnBatchError(other.offset, other.batch_size, Len(other.issues)).pc]
    /\ UNCHANGED <<settings_chroma_db_dir, fetchVars, fnVars, threadVars, slackVars>>
    /\ UNCHANGED <<index, trackerVars, syncVars, globalVars, searchVars>>

\* The second process ends.
OtherExit ==
    /\ other.pc \in {"done", "failed"}
    /\ other' = NoRun
    /\ UNCHANGED <<settings_chroma_db_dir, fetchVars, fnVars, threadVars, slackVars>>
    /\ UNCHANGED <<index, trackerVars, syncVars, globalVars, searchVars>>

NextOverlap ==
    \/ \E k \in Keys, st \in Statuses : EditIssue(k, st)
    \/ Sync
    \/ \E b \in BatchSizes : OtherStart(1000, b)
    \/ OtherBatchOk
    \/ OtherBatchFails
    \/ OtherExit

SpecOverlap == Init /\ [][NextOverlap]_vars

\* C26 as stated: with sync runs overlapping, no step replaces the version of
\* an issue held in the collection by an older one: the "updated" of the entry
\* of an id never decreases.
C26_NoRegression ==
    [][\A j \in DOMAIN index : \A k \in DOMAIN index' :
          index'[k].id = index[j].id =>
              index'[k].metadata.updated >= index[j].metadata.updated]_vars

\* A completed run wrote the current version of an issue, and the other run,
\* which had fetched before the issue changed, has written its older one over it.
C26_Regressed ==
    /\ syncPc = "done"
    /\ other.pc = "done"
    /\ \E i \in DOMAIN syncIssues : \E e \in Entries(index) :
          /\ e.id = syncIssues[i].key
          /\ e.metadata.updated < syncIssues[i].updated
          /\ syncIssues[i].updated = tracker[e.id].updated

---------------------------------------------------------------------------
(* The tracker changes while fetch_jira_issues pages; C27 *)

NextFetchEdits ==
    \/ \E k \in DOMAIN tracker, st \in Statuses : EditIssue(k, st)
    \/ SyncFailsBeforeWriting
    \/ \E m \in FetchPageSizes, b \in BatchSizes : FetchStart(m, b)
    \/ FetchPage
    \/ FetchPageFails
    \/ SyncBatchOk
    \/ SyncBatchFails
    \/ SyncExit

SpecFetchEdits == InitFetch /\ [][NextFetchEdits]_vars

FetchedKeys == {syncIssues[i].key : i \in DOMAIN syncIssues}

\* C27 as stated: also when issues are updated between two page requests, the
\* list fetch_jira_issues returns holds every issue of the project (none is
\* created or removed here) at least once and none more than once.
C27_EveryIssueOnce ==
    Fetched =>
        /\ DOMAIN tracker \subseteq FetchedKeys
        /\ \A i, j \in DOMAIN syncIssues : i < j => syncIssues[i].key # syncIssues[j].key

\* An issue was updated after the first page was answered: the list returned
\* lacks it and holds another issue twice.
C27_MissedAndRepeated ==
    /\ Fetched
    /\ edits = 1
    /\ Len(fetchPages) >= 2
    /\ \E k \in DOMAIN tracker : k \notin FetchedKeys
    /\ \E i, j \in DOMAIN syncIssues : i < j /\ syncIssues[i].key = syncIssues[j].key

---------------------------------------------------------------------------
(* Pool threads inside _get_chroma_resources; C28 *)

\* The objects a thread's constructor calls return: a new one per call.
ClientBy(t) == IF t = 1 THEN "PersistentClient#1" ELSE "PersistentClient#2"
CollectionBy(t) == IF t = 1 THEN "jira_issues#1" ELSE "jira_issues#2"

ThreadStep(t, next) ==
    /\ callers' = [callers EXCEPT ![t] = next]
    /\ UNCHANGED <<settings_chroma_db_dir, fetchVars, fnVars, other, slackVars>>
    /\ UNCHANGED <<trackerVars, syncVars, searchVars>>

\* search_similar_jira_issues, run by a pool thread, calls _get_chroma_resources.
EnterResources(t) ==
    /\ callers[t].pc \in {"idle", "returned"}
    /\ ThreadStep(t, [NoCaller EXCEPT !.pc = "check_client"])
    /\ UNCHANGED <<index, globalVars, built>>

\* if _chroma_client is None:
CheckClient(t) ==
    /\ callers[t].pc = "check_client"
    /\ ThreadStep(t, [callers[t] EXCEPT
                        !.pc = IF chroma_client = None THEN "make_client" ELSE "check_model"])
    /\ UNCHANGED <<index, globalVars, built>>

\* _chroma_client = chromadb.PersistentClient(path=..., settings=...)
MakeClient(t) ==
    /\ callers[t].pc = "make_client"
    /\ settings_chroma_db_dir
    /\ chroma_client' = ClientBy(t)
    /\ built' = [built EXCEPT !.clients = built.clients \union {ClientBy(t)}]
    /\ ThreadStep(t, [callers[t] EXCEPT !.pc = "check_model"])
    /\ UNCHANGED <<index, embedding_model_name, jira_collection>>

\* PersistentClient raises; the caller's except turns it into the error text.
MakeClientFails(t) ==
    /\ callers[t].pc = "make_client"
    /\ ThreadStep(t, NoCaller)
    /\ UNCHANGED <<index, globalVars, built>>

\* if _embedding_model_name is None: _embedding_model_name = os.getenv(...)
CheckModel(t) ==
    /\ callers[t].pc = "check_model"
    /\ embedding_model_name' = EMBEDDING_MODEL
    /\ ThreadStep(t, [callers[t] EXCEPT !.pc = "check_collection"])
    /\ UNCHANGED <<index, chroma_client, jira_collection, built>>

\* if _jira_collection is None:
CheckCollection(t) ==
    /\ callers[t].pc = "check_collection"
    /\ ThreadStep(t, [callers[t] EXCEPT
                        !.pc = IF jira_collection = None THEN "make_collection" ELSE "return"])
    /\ UNCHANGED <<index, globalVars, built>>

\* _jira_collection = _chroma_client.get_or_create_collection(name="jira_issues", ...)
MakeCollection(t) ==
    /\ callers[t].pc = "make_collection"
    /\ jira_collection' = CollectionBy(t)
    /\ index' = GetOrCreateCollection(index)
    /\ built' = [built EXCEPT !.collections = built.collections \union {CollectionBy(t)}]
    /\ ThreadStep(t, [callers[t] EXCEPT !.pc = "return"])
    /\ UNCHANGED <<chroma_client, embedding_model_name>>

\* return _chroma_client, _embedding_model_name, _jira_collection
ReturnResources(t) ==
    /\ callers[t].pc = "return"
    /\ ThreadStep(t, [pc |-> "returned", client |-> chroma_client,
                      collection |-> jira_collection])
    /\ UNCHANGED <<index, globalVars, built>>

NextThreads ==
    \E t \in Threads :
        \/ EnterResources(t)
        \/ CheckClient(t)
        \/ MakeClient(t)
        \/ MakeClientFails(t)
        \/ CheckModel(t)
        \/ CheckCollection(t)
        \/ MakeCollection(t)
        \/ ReturnResources(t)

InitThreads ==
    /\ Init
    /\ settings_chroma_db_dir = TRUE

SpecThreads == InitThreads /\ [][NextThreads]_vars

\* C28 as stated: however the calls of the pool threads interleave, the process
\* constructs one persistent client and obtains one collection handle at most,
\* and all calls are handed that same client and that same handle.
C28_OnceOnly ==
    /\ Cardinality(built.clients) <= 1
    /\ Cardinality(built.collections) <= 1
    /\ \A t, u \in Threads :
          (callers[t].pc = "returned" /\ callers[u].pc = "returned") =>
              /\ callers[t].client = callers[u].client
              /\ callers[t].collection = callers[u].collection

\* Two threads found _chroma_client None before either assigned it: two clients
\* were constructed, and the two calls work on different collection handles.
C28_TwoHandles ==
    /\ Cardinality(built.clients) = 2
    /\ Cardinality(built.collections) = 2
    /\ callers[1].pc = "returned" /\ callers[2].pc = "returned"
    /\ callers[1].collection # callers[2].collection

---------------------------------------------------------------------------
(* C29 *)

\* The call found the collection non-empty and no collaborator raised.
Answered == Done /\ fault = None /\ response.kind # "empty_corpus"

\* C29: a call that found the collection non-empty, with no collaborator
\* failing, retrieved at least one candidate, the first of them the nearest, and
\* returned the success listing exactly when that candidate's similarity reaches
\* the clamped threshold and the below-threshold text otherwise; no call ever
\* returns the bare "No similar issues found in the database.", sync runs
\* writing between its count and its query included.
C29_SuccessOrDiagnostic ==
    /\ Done => response.kind # "no_results"
    /\ Answered =>
          /\ Len(results.ids) >= 1
          /\ \A r \in Retrieved : RawTwice(r) <= RawTwice(1)
          /\ response.kind = (IF Reaches(1, EffectiveThreshold)
                              THEN "success" ELSE "below_threshold")

\* A call has returned the below-threshold text while a sync run is between two
\* of its batches: the nearest of the entries written so far is at 0.30.
C29_Witness ==
    /\ Answered
    /\ response.kind = "below_threshold"
    /\ ~Reaches(1, EffectiveThreshold)
    /\ syncPc = "batch"
    /\ syncOffset >= 1
    /\ Len(results.ids) = Len(index)

---------------------------------------------------------------------------
(* Two app mentions of one Slack thread in the pool; C30 *)

\* HumanMessage(content=user_input_text) of the mention thread t works on, and
\* the reply the agent appends for it; mention 0 is an earlier turn.
HumanMessage(t) == [role |-> "human", mention |-> t]
AIMessage(t) == [role |-> "ai", mention |-> t]
\* What the file holds after one earlier turn of the conversation.
EarlierTurn == <<HumanMessage(0), AIMessage(0)>>

WorkerStep(t, next) ==
    /\ slackWorkers' = [slackWorkers EXCEPT ![t] = next]
    /\ UNCHANGED <<settings_chroma_db_dir, fetchVars, fnVars, other, threadVars>>
    /\ UNCHANGED <<index, trackerVars, syncVars, globalVars, searchVars>>

\* handle_app_mention: executor.submit(self._process_mention, event, client).
SubmitMention(t, has_link) ==
    /\ slackWorkers[t].pc = "idle"
    /\ WorkerStep(t, [NoWorker EXCEPT !.pc = "load", !.has_link = has_link])
    /\ UNCHANGED slackFile

\* pickle.load(open(pickle_file, 'rb')) if os.path.exists(pickle_file) else []
LoadHistory(t) ==
    /\ slackWorkers[t].pc = "load"
    /\ WorkerStep(t, [slackWorkers[t] EXCEPT !.pc = "append", !.history = slackFile])
    /\ UNCHANGED slackFile

\* A first turn without a prow or gcsweb link is answered and dropped; otherwise
\* conversation_history_messages.append(current_user_message).
AppendUserMessage(t) ==
    /\ slackWorkers[t].pc = "append"
    /\ WorkerStep(t,
          IF Len(slackWorkers[t].history) = 0 /\ ~slackWorkers[t].has_link
          THEN [slackWorkers[t] EXCEPT !.pc = "finished", !.outcome = "no_link"]
          ELSE [slackWorkers[t] EXCEPT
                  !.pc = "invoke",
                  !.history = Append(slackWorkers[t].history, HumanMessage(t))])
    /\ UNCHANGED slackFile

\* result = self.app.invoke(inputs); conversation_history_messages = result["messages"];
\* the reply is posted to the thread.
InvokeAgent(t) ==
    /\ slackWorkers[t].pc = "invoke"
    /\ WorkerStep(t, [slackWorkers[t] EXCEPT
                        !.pc = "save",
                        !.history = Append(slackWorkers[t].history, AIMessage(t))])
    /\ UNCHANGED slackFile

\* The agent (or posting the reply) raises: "Something went wrong" is posted and
\* nothing is saved.
InvokeFails(t) ==
    /\ slackWorkers[t].pc = "invoke"
    /\ WorkerStep(t, [slackWorkers[t] EXCEPT !.pc = "finished", !.outcome = "error"])
    /\ UNCHANGED slackFile

\* with open(pickle_file, 'wb') as f: pickle.dump(conversation_history_messages, f)
SaveHistory(t) ==
    /\ slackWorkers[t].pc = "save"
    /\ slackFile' = slackWorkers[t].history
    /\ WorkerStep(t, [slackWorkers[t] EXCEPT !.pc = "finished", !.outcome = "saved"])

NextSlack ==
    \E t \in Threads :
        \/ \E has_link \in BOOLEAN : SubmitMention(t, has_link)
        \/ LoadHistory(t)
        \/ AppendUserMessage(t)
        \/ InvokeAgent(t)
        \/ InvokeFails(t)
        \/ SaveHistory(t)

InitSlack ==
    /\ settings_chroma_db_dir = TRUE
    /\ tracker = InitialTracker
    /\ clock = 3
    /\ edits = 0
    /\ index = <<>>
    /\ IdleSync
    /\ chroma_client = None
    /\ embedding_model_name = None
    /\ jira_collection = None
    /\ IdleSearch
    /\ other = NoRun
    /\ callers = [t \in Threads |-> NoCaller]
    /\ built = [clients |-> {}, collections |-> {}]
    /\ slackFile \in {NoFile, EarlierTurn}
    /\ slackWorkers = [t \in Threads |-> NoWorker]
    /\ IdleFetch
    /\ IdleFn

SpecSlack == InitSlack /\ [][NextSlack]_vars

Saved(t) == slackWorkers[t].pc = "finished" /\ slackWorkers[t].outcome = "saved"
InFile(m) == \E i \in DOMAIN slackFile : slackFile[i] = m

\* C30 as stated: when the two mentions of the thread have both been processed
\* and saved, the history file of the thread holds the user message of each.
C30_BothUserMessages ==
    (\A t \in Threads : Saved(t)) => \A t \in Threads : InFile(HumanMessage(t))

\* Both mentions were answered and saved, and the file is what the second
\* writer had loaded and extended: the first writer's user message is gone.
C30_LostUpdate ==
    /\ \A t \in Threads : Saved(t)
    /\ slackFile = EarlierTurn \o <<HumanMessage(2), AIMessage(2)>>
    /\ ~InFile(HumanMessage(1))

====
